---- MODULE Spec2Model ----
(***************************************************************************)
(* Model of records.py: RecordCollection, the lazily caching sequence of   *)
(* rows over a forward-only producer (self._rows), with its cache          *)
(* (self._all_rows) and its exhaustion flag (self.pending), under Spec;    *)
(* Database and its transaction scope under SpecDB; Record and its         *)
(* __getitem__ under SpecRecord.                                           *)
(*                                                                         *)
(* A collection is the record [rows, all_rows, pending]: rows is what the  *)
(* producer iterator has still to emit, all_rows the cache.  Every method  *)
(* is an operator from a collection to an outcome [s, res, val, pulls]:    *)
(* the collection afterwards, how the call ended ("Row", "None", "dicts",  *)
(* "RecordCollection", "default", or the name of the exception raised),    *)
(* the rows it returned, and how many times it called next(self._rows).    *)
(***************************************************************************)
EXTENDS Integers, Sequences, FiniteSets, TLC

\* ---- bounds -------------------------------------------------------------
MaxRows == 3        \* longest producer stream
MaxGens == 2        \* generator objects of __iter__ alive at once
MaxNeg  == 2        \* most negative index tried
MaxConns == 2       \* connections and transaction scopes a caller holds at once
MaxFields == 3      \* most fields of a Record

Gens == 1..MaxGens

\* A producer emits a new Row object at every pull: a row is named by its
\* place in the emission order, and the stream of n rows is <<1, ..., n>>.
Stream(n) == [k \in 1..n |-> k]
Streams   == {Stream(n) : n \in 0..MaxRows}

\* ---- keys of __getitem__ -------------------------------------------------
\* an int key i, or a slice start:stop (open: stop is None)
IntKey(i)      == [kind |-> "int",   start |-> i, stop |-> i + 1, open |-> FALSE]
Slice(a, b)    == [kind |-> "slice", start |-> a, stop |-> b,     open |-> FALSE]
OpenSlice(a)   == [kind |-> "slice", start |-> a, stop |-> 0,     open |-> TRUE]
NoKey          == [kind |-> "none",  start |-> 0, stop |-> 0,     open |-> FALSE]

IntKeys   == {IntKey(i) : i \in (0 - MaxNeg)..(MaxRows + 1)}
SliceKeys == {Slice(a, b) : a \in 0..MaxRows, b \in 0..(MaxRows + 1)}
               \cup {OpenSlice(a) : a \in 0..MaxRows}
Keys      == IntKeys \cup SliceKeys

Defaults == {"None", "value", "Exception()", "Exception"}
Modes    == {"record", "as_dict", "as_ordereddict"}

VARIABLES
  emit,       \* everything the producer emits over its lifetime (never changes)
  rows,       \* self._rows: what the producer iterator has still to emit
  all_rows,   \* self._all_rows: the cache
  pending,    \* self.pending
  gens,       \* the generator objects made by __iter__: [st, i, out]
  last,       \* the call that led to this state, and how it ended
  \* Database
  open,       \* self.open
  was_closed, \* close() has been called on the Database
  conns,      \* what the caller holds: connections and transaction scopes
  dblast,     \* the Database call that led to this state, and how it ended
  \* Record
  rkeys,      \* self._keys
  rvalues,    \* self._values
  rlast       \* the Record call that led to this state, and how it ended

rc_vars  == <<emit, rows, all_rows, pending, gens, last>>
db_vars  == <<open, was_closed, conns, dblast>>
rec_vars == <<rkeys, rvalues, rlast>>
vars     == <<rc_vars, db_vars, rec_vars>>

Self == [rows |-> rows, all_rows |-> all_rows, pending |-> pending]

Out(s, res, val, n) == [s |-> s, res |-> res, val |-> val, pulls |-> n]

\* ---- isexception (l.14-19) ----------------------------------------------
isexception(obj) == obj \in {"Exception()", "Exception"}

\* ---- variants of __next__ with a bug ---------------------------------------
\* the row is put at the head of the cache: insert(0, nextrow) for append
rc_next_prepends(s) ==
  IF s.rows # <<>>
  THEN Out([s EXCEPT !.rows = Tail(@), !.all_rows = <<Head(s.rows)>> \o @],
           "Row", <<Head(s.rows)>>, 1)
  ELSE Out([s EXCEPT !.pending = FALSE], "StopIteration", <<>>, 1)

\* pending is cleared on every call, outside the except clause
rc_next_clears_early(s) ==
  IF s.rows # <<>>
  THEN Out([s EXCEPT !.rows = Tail(@), !.all_rows = Append(@, Head(s.rows)),
                     !.pending = FALSE],
           "Row", <<Head(s.rows)>>, 1)
  ELSE Out([s EXCEPT !.pending = FALSE], "StopIteration", <<>>, 1)

\* next(self._rows, None): the exhausted producer's None is cached as a row
rc_next_caches_none(s) ==
  IF s.rows # <<>>
  THEN Out([s EXCEPT !.rows = Tail(@), !.all_rows = Append(@, Head(s.rows))],
           "Row", <<Head(s.rows)>>, 1)
  ELSE Out([s EXCEPT !.pending = FALSE, !.all_rows = Append(@, 0)],
           "StopIteration", <<>>, 1)

\* ---- RecordCollection.__next__ (l.111-118) -------------------------------
rc_next(s) ==
  IF s.rows # <<>>
  THEN Out([s EXCEPT !.rows = Tail(@), !.all_rows = Append(@, Head(s.rows))],
           "Row", <<Head(s.rows)>>, 1)
  ELSE Out([s EXCEPT !.pending = FALSE], "StopIteration", <<>>, 1)

\* ---- RecordCollection.__len__ (l.120-121) --------------------------------
rc_len(s) == Len(s.all_rows)

\* ---- list slicing, self._all_rows[key] (l.135) ---------------------------
\* Python's slice.indices for step None: a negative bound counts from the end,
\* and both bounds are clamped to [0, len].
PyBound(x, n) == IF x < 0 THEN (IF x + n < 0 THEN 0 ELSE x + n)
                 ELSE (IF x > n THEN n ELSE x)

PySlice(seq, key) ==
  LET n  == Len(seq)
      lo == PyBound(key.start, n)
      hi == IF key.open THEN n ELSE PyBound(key.stop, n)
  IN  SubSeq(seq, lo + 1, hi)

\* ---- RecordCollection.__getitem__ (l.123-138) ----------------------------
\* l.124: isinstance(int, key) has its arguments swapped.  key (an int or a
\* slice) is not a type, so the call raises TypeError for every key.
isinstance_int(key) == "TypeError"

\* l.129-133: the loop that pulls until the cache reaches key.stop.
\* len(self) < None raises TypeError, so an open slice never enters the loop.
\* (r \in {e} names the value of e, so that it is computed once.)
RECURSIVE pull_until(_, _, _)
pull_until(s, key, n) ==
  IF key.open THEN Out(s, "TypeError", <<>>, n)
  ELSE IF rc_len(s) < key.stop
       THEN CHOOSE o \in {IF r.res = "StopIteration"
                          THEN Out(r.s, "ok", <<>>, n + 1)
                          ELSE pull_until(r.s, key, n + 1) : r \in {rc_next(s)}} : TRUE
       ELSE Out(s, "ok", <<>>, n)

\* l.135-138, with the cache as the loop p left it
sliced(p, key, is_int) ==
  IF p.res = "TypeError" THEN p
  ELSE IF is_int = "True"
       THEN (IF PySlice(p.s.all_rows, key) = <<>>
             THEN Out(p.s, "IndexError", <<>>, p.pulls)
             ELSE Out(p.s, "Row", <<PySlice(p.s.all_rows, key)[1]>>, p.pulls))
       ELSE Out(p.s, "RecordCollection", PySlice(p.s.all_rows, key), p.pulls)

rc_getitem(s, key) ==
  IF isinstance_int(key) = "TypeError" THEN Out(s, "TypeError", <<>>, 0)
  ELSE IF isinstance_int(key) = "True"
       THEN CHOOSE o \in {sliced(p, Slice(key.start, key.start + 1), "True")
                            : p \in {pull_until(s, Slice(key.start, key.start + 1), 0)}} : TRUE
       ELSE CHOOSE o \in {sliced(p, key, "False") : p \in {pull_until(s, key, 0)}} : TRUE

\* ---- RecordCollection.__iter__ (l.96-106) --------------------------------
\* One resumption of the generator whose local i has the given value: it
\* yields a row ("Row"), returns ("StopIteration"), or dies of the exception
\* self[i] raised.
iter_step(s, i) ==
  IF i < rc_len(s) THEN rc_getitem(s, IntKey(i)) ELSE rc_next(s)

\* list(self): a new generator run to its end.
RECURSIVE iter_run(_, _, _, _)
iter_run(s, i, acc, n) ==
  CHOOSE o \in {IF r.res = "Row"
                THEN iter_run(r.s, i + 1, acc \o r.val, n + r.pulls)
                ELSE IF r.res = "StopIteration"
                     THEN Out(r.s, "list", acc, n + r.pulls)
                     ELSE Out(r.s, r.res, <<>>, n + r.pulls) : r \in {iter_step(s, i)}} : TRUE

\* ---- RecordCollection.all (l.157-163) ------------------------------------
\* Without a flag the function ends without a return statement: None.
rc_all(s, as_dict, as_ordereddict) ==
  CHOOSE o \in {IF l.res # "list" THEN l
                ELSE IF as_dict THEN Out(l.s, "dicts", l.val, l.pulls)
                ELSE IF as_ordereddict THEN Out(l.s, "dicts", l.val, l.pulls)
                ELSE Out(l.s, "None", <<>>, l.pulls) : l \in {iter_run(s, 0, <<>>, 0)}} : TRUE

\* ---- RecordCollection.as_dict (l.165-166) --------------------------------
rc_as_dict(s, ordered) == rc_all(s, ~ordered, ordered)

\* what first and one do once they hold their record (l.176-181, l.200-205)
shaped(s, record, mode, n) ==
  IF mode = "record" THEN Out(s, "Row", record, n)
  ELSE CHOOSE o \in {Out(d.s, d.res, d.val, n + d.pulls)
                       : d \in {rc_as_dict(s, mode = "as_ordereddict")}} : TRUE

\* the except IndexError branch (l.171-174, l.186-189)
on_empty(s, default, n) ==
  IF isexception(default) THEN Out(s, "raise default", <<>>, n)
  ELSE Out(s, "default", <<>>, n)

\* a variant of first with a bug: the row is taken from list(self), which
\* drains the producer
rc_first_drains(s, default, mode) ==
  CHOOSE o \in {IF l.res # "list" THEN l
                ELSE IF l.val = <<>> THEN on_empty(l.s, default, l.pulls)
                ELSE Out(l.s, "Row", <<l.val[1]>>, l.pulls) : l \in {iter_run(s, 0, <<>>, 0)}} : TRUE

\* ---- RecordCollection.first (l.168-181) ----------------------------------
rc_first(s, default, mode) ==
  CHOOSE o \in {IF r.res = "IndexError" THEN on_empty(r.s, default, r.pulls)
                ELSE IF r.res # "Row" THEN r
                ELSE shaped(r.s, r.val, mode, r.pulls) : r \in {rc_getitem(s, IntKey(0))}} : TRUE

\* ---- RecordCollection.one (l.183-205) ------------------------------------
\* l.191-205, r being the outcome of self[0] and q that of self[1]
one_second(r, q, mode) ==
  IF q.res = "Row" THEN Out(q.s, "ValueError", <<>>, r.pulls + q.pulls)
  ELSE IF q.res # "IndexError" THEN Out(q.s, q.res, <<>>, r.pulls + q.pulls)
  ELSE shaped(q.s, r.val, mode, r.pulls + q.pulls)

rc_one(s, default, mode) ==
  CHOOSE o \in {IF r.res = "IndexError" THEN on_empty(r.s, default, r.pulls)
                ELSE IF r.res # "Row" THEN r
                ELSE CHOOSE o2 \in {one_second(r, q, mode) : q \in {rc_getitem(r.s, IntKey(1))}} : TRUE
                  : r \in {rc_getitem(s, IntKey(0))}} : TRUE

\* ---- the state machine ---------------------------------------------------
NoGen == [st |-> "none", i |-> 0, out |-> <<>>]

\* plain: the call gave neither as_dict nor as_ordereddict
Call(op, key, default, mode) ==
  [op |-> op, key |-> key, default |-> default, plain |-> (mode = "record")]

NoCall == [op |-> "init", key |-> NoKey, default |-> "None", plain |-> TRUE]

\* the outcome of the call before, kept when it was the very same call
Before(c) ==
  IF last.call = c THEN [same |-> TRUE, res |-> last.res, val |-> last.val]
  ELSE [same |-> FALSE, res |-> "None", val |-> <<>>]

\* the call's outcome r becomes the state; last records the call.
\* out: everything the generator of an iternext call has yielded so far.
Done(c, r, g, out) ==
  /\ rows' = r.s.rows
  /\ all_rows' = r.s.all_rows
  /\ pending' = r.s.pending
  /\ gens' = g
  /\ last' = [call |-> c, res |-> r.res, val |-> r.val, pulls |-> r.pulls,
              len0 |-> Len(all_rows), pending0 |-> pending, out |-> out,
              before |-> Before(c)]
  /\ UNCHANGED <<emit, db_vars, rec_vars>>

\* a Database just constructed and left alone (l.213-220)
DBNew ==
  /\ open = TRUE
  /\ was_closed = FALSE
  /\ conns = [k \in 1..MaxConns |-> [pc |-> "none", log |-> <<>>, body |-> "none",
                                      res |-> "none", exc |-> "none"]]
  /\ dblast = [op |-> "init", k |-> 0, res |-> "None", connected |-> FALSE]

\* the empty Record, left alone (l.25-29)
RecordEmpty ==
  /\ rkeys = <<>>
  /\ rvalues = <<>>
  /\ rlast = [op |-> "init", kind |-> "none", i |-> 0, name |-> "", res |-> "None",
              val |-> <<>>]

Init ==
  /\ DBNew
  /\ RecordEmpty
  /\ emit \in Streams
  /\ rows = emit
  /\ all_rows = <<>>
  /\ pending = TRUE
  /\ gens = [g \in Gens |-> NoGen]
  /\ last = [call |-> NoCall, res |-> "None", val |-> <<>>, pulls |-> 0,
             len0 |-> 0, pending0 |-> TRUE, out |-> <<>>,
             before |-> [same |-> FALSE, res |-> "None", val |-> <<>>]]

\* next(rc)
DoNext ==
  \E r \in {rc_next(Self)} :
    Done(Call("next", NoKey, "None", "record"), r, gens, <<>>)

\* rc[key]
GetItem(key) ==
  \E r \in {rc_getitem(Self, key)} :
    Done(Call("getitem", key, "None", "record"), r, gens, <<>>)

\* iter(rc): a generator object; none of its body has run yet
Iter(g) ==
  /\ gens[g].st = "none"
  /\ Done(Call("iter", NoKey, "None", "record"), Out(Self, "generator", <<>>, 0),
          [gens EXCEPT ![g] = [st |-> "live", i |-> 0, out |-> <<>>]], <<>>)

\* next(g) on a generator of __iter__: it yields a row and stays alive, or
\* ends (by return or by an exception) and is gone
IterNext(g) ==
  /\ gens[g].st = "live"
  /\ \E r \in {iter_step(Self, gens[g].i)} :
       Done(Call("iternext", IntKey(gens[g].i), "None", "record"), r,
            [gens EXCEPT ![g] = IF r.res = "Row"
                                THEN [st |-> "live", i |-> gens[g].i + 1,
                                      out |-> gens[g].out \o r.val]
                                ELSE NoGen],
            gens[g].out \o r.val)

\* rc.all(...)
All(mode) ==
  \E r \in {rc_all(Self, mode = "as_dict", mode = "as_ordereddict")} :
    Done(Call("all", NoKey, "None", mode), r, gens, <<>>)

\* rc.first(default, ...)
First(default, mode) ==
  \E r \in {rc_first(Self, default, mode)} :
    Done(Call("first", NoKey, default, mode), r, gens, <<>>)

\* rc.one(default, ...)
One(default, mode) ==
  \E r \in {rc_one(Self, default, mode)} :
    Done(Call("one", NoKey, default, mode), r, gens, <<>>)

Next ==
  \/ DoNext
  \/ \E key \in Keys : GetItem(key)
  \/ \E g \in Gens : Iter(g)
  \/ \E g \in Gens : IterNext(g)
  \/ \E mode \in Modes : All(mode)
  \/ \E default \in Defaults, mode \in Modes : First(default, mode)
  \/ \E default \in Defaults, mode \in Modes : One(default, mode)

Spec == Init /\ [][Next]_vars

TypeOK ==
  /\ emit \in Streams
  /\ pending \in BOOLEAN
  /\ Len(all_rows) <= MaxRows

\* ---- properties ----------------------------------------------------------
Total   == Len(emit)
IsIndex == last.call.op = "getitem" /\ last.call.key.kind = "int"
IsSlice == last.call.op = "getitem" /\ last.call.key.kind = "slice"
Index   == last.call.key.start
Max(a, b) == IF a >= b THEN a ELSE b

\* C1: an index access rc[i] with a valid i that directly follows the same
\* access returns the same cached Row as the first one, pulls nothing from
\* the producer and leaves the cache as it was.
C1_RepeatedIndexSameRow ==
  (IsIndex /\ Index \in 0..(Total - 1) /\ last.before.same)
    => /\ last.before.res = "Row"
       /\ last.res = "Row"
       /\ last.val = last.before.val
       /\ last.val = <<all_rows[Index + 1]>>
       /\ last.pulls = 0
       /\ Len(all_rows) = last.len0

\* C2: the cache is always the first len(cache) rows the producer emits, in
\* emission order (what is cached and what is still to come make up the
\* stream); no call shortens it and it never holds more than the stream.
C2_CachePrefixMonotone ==
  /\ all_rows \o rows = emit
  /\ all_rows = SubSeq(emit, 1, Len(all_rows))
  /\ last.len0 <= Len(all_rows)
  /\ Len(all_rows) <= Total

C2_Witness ==
  /\ Len(all_rows) >= 2
  /\ rows # <<>>
  /\ last.len0 < Len(all_rows)

\* C3: pending false means the cache holds every row of the stream; pending
\* is true at construction; once false it is false after every later call.
C3_PendingFalseMeansComplete ==
  /\ (~pending => Len(all_rows) = Total /\ all_rows = emit)
  /\ (last.call.op = "init" => pending)
  /\ (~last.pending0 => ~pending)

C3_Witness ==
  /\ ~pending
  /\ ~last.pending0
  /\ Total >= 2
  /\ all_rows = emit

\* C4 as stated: after pending has become false no call pulls on the producer.
C4_NoPullAfterExhausted ==
  ~last.pending0 => last.pulls = 0

\* C4 amended: after pending has become false no call gets a row out of the
\* producer: the cache and pending stay as they are, and a call asks the
\* producer at most once more, to be told again that it is exhausted.
C4_NoRowAfterExhausted ==
  ~last.pending0
    => /\ ~pending
       /\ Len(all_rows) = last.len0
       /\ all_rows = emit
       /\ rows = <<>>
       /\ last.pulls <= 1
       /\ (last.pulls = 1 => last.res # "Row")

C4_Witness ==
  /\ ~last.pending0
  /\ last.call.op = "next"
  /\ last.pulls = 1
  /\ last.res = "StopIteration"
  /\ Total >= 1

\* C5: rc[i] with i >= 0 returns the i-th row the producer emits when
\* i < total, and raises IndexError when i >= total.
C5_IndexReturnsIthRow ==
  (IsIndex /\ Index >= 0)
    => IF Index < Total
       THEN last.res = "Row" /\ last.val = <<emit[Index + 1]>>
       ELSE last.res = "IndexError"

\* C6: rc[i] with 0 <= i < total leaves the cache with exactly
\* max(L, i + 1) rows, L being its length before, and leaves pending alone.
C6_IndexPullsOnlyNeeded ==
  (IsIndex /\ Index \in 0..(Total - 1))
    => /\ Len(all_rows) = Max(last.len0, Index + 1)
       /\ pending = last.pending0

\* C7: rc[a:b] with 0 <= a <= b, or rc[a:], gives a new RecordCollection
\* over rows a..b-1 (as far as they exist) of everything the producer emits.
C7_SliceIsSubrange ==
  (IsSlice /\ (last.call.key.open \/ last.call.key.start <= last.call.key.stop))
    => /\ last.res = "RecordCollection"
       /\ last.val = PySlice(emit, last.call.key)

\* C9: rc[i] with i < 0 raises IndexError.
C9_NegativeIndexOutOfRange ==
  (IsIndex /\ Index < 0) => last.res = "IndexError"

\* C10: one() on a producer of two or more rows raises ValueError, whatever
\* the default and whatever is cached.
C10_OneRaisesOnMultiple ==
  (last.call.op = "one" /\ Total >= 2) => last.res = "ValueError"

Min(a, b) == IF a <= b THEN a ELSE b
Raised == {"TypeError", "IndexError", "ValueError", "StopIteration", "raise default"}

\* C11: one() on an empty stream raises when no default is given and returns
\* the default when one is given; on a stream of exactly one row it returns
\* that row.
C11_OneOnZeroOrOneRow ==
  (last.call.op = "one" /\ last.call.plain)
    => /\ (Total = 0 /\ last.call.default = "None" => last.res \in Raised)
       /\ (Total = 0 /\ last.call.default = "value" => last.res = "default")
       /\ (Total = 1 => last.res = "Row" /\ last.val = emit)

\* C12: first(default) returns the first row the producer emits when there is
\* one; on an empty stream it raises default when default is an exception
\* (instance or class) and returns default otherwise.
C12_FirstRowOrDefault ==
  (last.call.op = "first" /\ last.call.plain)
    => /\ (Total >= 1 => last.res = "Row" /\ last.val = <<emit[1]>>)
       /\ (Total = 0 /\ isexception(last.call.default) => last.res = "raise default")
       /\ (Total = 0 /\ ~isexception(last.call.default) => last.res = "default")

\* C13: an enumeration that ends has ended by return, having yielded exactly
\* the producer's rows, each once and in emission order, however it was
\* interleaved with other enumerations and calls; and the producer has given
\* each row once (the cache is what it gave).
C13_EnumerationYieldsStream ==
  /\ (last.call.op = "iternext" /\ last.res # "Row")
       => last.res = "StopIteration" /\ last.out = emit
  /\ (last.call.op = "iternext" /\ last.res = "Row")
       => last.out = SubSeq(emit, 1, Len(last.out))
  /\ Len(all_rows) + Len(rows) = Total

\* C14: all() without flags drains the producer and returns every row it
\* emits, in order, leaving pending false; a second all() returns the same
\* rows and changes nothing.
C14_AllReturnsEveryRow ==
  (last.call.op = "all" /\ last.call.plain)
    => /\ last.res = "list"
       /\ last.val = emit
       /\ all_rows = emit
       /\ ~pending
       /\ (last.before.same => last.before.val = last.val /\ last.len0 = Len(all_rows))

\* C20: on a fresh collection (nothing cached, the producer not yet asked)
\* first() leaves at most min(1, N) rows in the cache and one() at most
\* min(2, N), N being the length of the stream; pending is still true when
\* N is larger than that.
Fresh0 == last.len0 = 0 /\ last.pending0

NoConn == [pc |-> "none", log |-> <<>>, body |-> "none", res |-> "none", exc |-> "none"]

\* Connection(self._engine.connect()): a connection in the caller's hands
NewConnection == [NoConn EXCEPT !.pc = "conn", !.log = <<"connect">>]

\* conn.transaction()
Begin(c) == [c EXCEPT !.log = Append(@, "begin")]

RCIdle ==
  /\ emit = <<>>
  /\ rows = <<>>
  /\ all_rows = <<>>
  /\ pending = TRUE
  /\ gens = [g \in Gens |-> NoGen]
  /\ last = [call |-> NoCall, res |-> "None", val |-> <<>>, pulls |-> 0,
             len0 |-> 0, pending0 |-> TRUE, out |-> <<>>,
             before |-> [same |-> FALSE, res |-> "None", val |-> <<>>]]

\* a variant of get_connection with a bug: the open flag is not looked at
get_connection_unchecked(is_open) == [res |-> "Connection", connected |-> TRUE]

\* ---- Database.get_connection (l.238-242) ---------------------------------
get_connection(is_open) ==
  IF ~is_open THEN [res |-> "ResourceClosedError", connected |-> FALSE]
  ELSE [res |-> "Connection", connected |-> TRUE]

\* a variant of the end of transaction() with a bug: conn.close() is the last
\* statement of the try block, there is no finally
tx_exit_close_in_try(body_ok, commit_ok, rollback_ok) ==
  IF body_ok /\ commit_ok
  THEN [log |-> <<"commit", "close">>, res |-> "normal", exc |-> "none"]
  ELSE LET first == IF body_ok THEN <<"commit failed">> ELSE <<>> IN
       IF rollback_ok
       THEN [log |-> first \o <<"rollback">>, res |-> "normal", exc |-> "none"]
       ELSE [log |-> first \o <<"rollback failed">>, res |-> "raised",
             exc |-> "rollback error"]

\* ---- Database.transaction, from the yield to the end (l.266-271) ----------
\* body_ok: the with block ended without an exception; commit_ok, rollback_ok:
\* what the engine does with tx.commit() and tx.rollback().  The bare except
\* clause ends without a raise: after a rollback that worked the generator
\* returns and the with statement completes normally.
tx_exit(body_ok, commit_ok, rollback_ok) ==
  IF body_ok /\ commit_ok
  THEN [log |-> <<"commit", "close">>, res |-> "normal", exc |-> "none"]
  ELSE LET first == IF body_ok THEN <<"commit failed">> ELSE <<>> IN
       IF rollback_ok
       THEN [log |-> first \o <<"rollback", "close">>, res |-> "normal", exc |-> "none"]
       ELSE [log |-> first \o <<"rollback failed", "close">>, res |-> "raised",
             exc |-> "rollback error"]

\* db.close() (l.222-224): engine.dispose(), then the flag
Close ==
  /\ open' = FALSE
  /\ was_closed' = TRUE
  /\ dblast' = [op |-> "close", k |-> 0, res |-> "None", connected |-> FALSE]
  /\ UNCHANGED <<conns, rc_vars, rec_vars>>

Free(k) == conns[k].pc \in {"none", "exited"}

\* db.get_connection() (l.238-242)
GetConnection(k) ==
  /\ Free(k)
  /\ \E r \in {get_connection(open)} :
       /\ conns' = IF r.connected THEN [conns EXCEPT ![k] = NewConnection] ELSE conns
       /\ dblast' = [op |-> "get_connection", k |-> k, res |-> r.res,
                     connected |-> r.connected]
  /\ UNCHANGED <<open, was_closed, rc_vars, rec_vars>>

\* conn.close() on a connection from get_connection()
ConnClose(k) ==
  /\ conns[k].pc = "conn"
  /\ conns' = [conns EXCEPT ![k] = [@ EXCEPT !.pc = "exited", !.log = Append(@, "close")]]
  /\ dblast' = [op |-> "conn.close", k |-> k, res |-> "None", connected |-> FALSE]
  /\ UNCHANGED <<open, was_closed, rc_vars, rec_vars>>

\* with db.transaction() as conn: up to the yield (l.262-266)
Enter(k) ==
  /\ Free(k)
  /\ \E r \in {get_connection(open)} :
       /\ conns' = IF r.connected
                   THEN [conns EXCEPT ![k] = [Begin(NewConnection) EXCEPT !.pc = "body"]]
                   ELSE conns
       /\ dblast' = [op |-> "transaction", k |-> k, res |-> r.res,
                     connected |-> r.connected]
  /\ UNCHANGED <<open, was_closed, rc_vars, rec_vars>>

\* the with block ends, and transaction() runs from the yield to its end
Exit(k, body_ok, commit_ok, rollback_ok) ==
  /\ conns[k].pc = "body"
  /\ \E r \in {tx_exit(body_ok, commit_ok, rollback_ok)} :
       /\ conns' = [conns EXCEPT ![k] =
                      [pc |-> "exited", log |-> conns[k].log \o r.log,
                       body |-> IF body_ok THEN "ok" ELSE "raise",
                       res |-> r.res, exc |-> r.exc]]
       /\ dblast' = [op |-> "exit", k |-> k, res |-> r.res, connected |-> FALSE]
  /\ UNCHANGED <<open, was_closed, rc_vars, rec_vars>>

InitDB == DBNew /\ RCIdle /\ RecordEmpty

NextDB ==
  \/ Close
  \/ \E k \in 1..MaxConns : GetConnection(k)
  \/ \E k \in 1..MaxConns : ConnClose(k)
  \/ \E k \in 1..MaxConns : Enter(k)
  \/ \E k \in 1..MaxConns, body_ok \in BOOLEAN, commit_ok \in BOOLEAN,
        rollback_ok \in BOOLEAN : Exit(k, body_ok, commit_ok, rollback_ok)

SpecDB == InitDB /\ [][NextDB]_vars

\* ---- Database properties -------------------------------------------------
Has(log, e) == \E n \in 1..Len(log) : log[n] = e
Count(log, e) == Cardinality({n \in 1..Len(log) : log[n] = e})
\* e comes before f in log
Precedes(log, e, f) == \E m, n \in 1..Len(log) : m < n /\ log[m] = e /\ log[n] = f

\* a transaction scope that has been entered and left
Left(k) == conns[k].pc = "exited" /\ Has(conns[k].log, "begin")
RolledBack(log) == Has(log, "rollback") \/ Has(log, "rollback failed")

\* C15: a scope whose body ended normally and whose commit worked has
\* committed and then closed the connection; a scope whose body or commit
\* failed has called rollback before closing it; every scope left has closed
\* its connection exactly once, as the last thing; rollback is never called
\* after a commit that worked.
C15_CommitOrRollbackThenClose ==
  \A k \in 1..MaxConns : Left(k) =>
    LET log == conns[k].log IN
    /\ (conns[k].body = "ok" /\ ~Has(log, "commit failed")
          => log = <<"connect", "begin", "commit", "close">>)
    /\ (conns[k].body = "raise" \/ Has(log, "commit failed")
          => RolledBack(log) /\ ~Has(log, "commit")
             /\ (Precedes(log, "rollback", "close") \/ Precedes(log, "rollback failed", "close")))
    /\ Count(log, "close") = 1
    /\ log[Len(log)] = "close"
    /\ ~(Has(log, "commit") /\ RolledBack(log))

C15_Witness ==
  /\ \E k \in 1..MaxConns : Left(k) /\ conns[k].body = "raise"
                            /\ conns[k].log = <<"connect", "begin", "rollback", "close">>
  /\ \E k \in 1..MaxConns : Left(k) /\ conns[k].log = <<"connect", "begin", "commit", "close">>

\* C16: a scope whose body raised, or whose commit failed, does not complete
\* normally: that failure reaches the caller of the scope.
C16_FailurePassedThrough ==
  \A k \in 1..MaxConns :
    (Left(k) /\ (conns[k].body = "raise" \/ Has(conns[k].log, "commit failed")))
      => /\ conns[k].res = "raised"
         /\ conns[k].exc = IF conns[k].body = "raise" THEN "body error" ELSE "commit error"

\* C17: get_connection() and transaction() fail with ResourceClosedError,
\* connecting to nothing, exactly when close() has been called; the open flag
\* is false exactly when close() has been called, whatever scopes have been
\* left and however; close() after close() leaves it false.
C17_ClosedExactlyAfterClose ==
  /\ open = ~was_closed
  /\ (dblast.op \in {"get_connection", "transaction"}
        => /\ (dblast.res = "ResourceClosedError") = was_closed
           /\ (dblast.res = "ResourceClosedError" => ~dblast.connected)
           /\ (dblast.res # "ResourceClosedError" => dblast.connected))
  /\ (dblast.op = "close" => ~open)

\* a scope whose body raised has been left, another one is under way on the
\* still usable Database, and after close() a third is refused
C17_Witness ==
  /\ dblast.op = "transaction"
  /\ dblast.res = "ResourceClosedError"
  /\ \E k \in 1..MaxConns : Left(k) /\ conns[k].body = "raise"
  /\ \E k \in 1..MaxConns : conns[k].pc = "body"

\* ==========================================================================
\* Record (l.22-85)
\* ==========================================================================
Names      == {"a", "b"}          \* field names of the records tried
ProbeNames == Names \cup {"z"}    \* names asked for; "z" is never a field

RECURSIVE SeqsUpTo(_, _)
SeqsUpTo(S, n) ==
  IF n = 0 THEN {<<>>}
  ELSE {<<>>} \cup {<<x>> \o q : x \in S, q \in SeqsUpTo(S, n - 1)}

\* the value in field n (counted from 1) of a record tried
ValueAt(n) == 10 + n

\* list.index(key) and list.count(key) (l.45-46), the index counted from 0
index(seq, key) == (CHOOSE n \in 1..Len(seq) :
                      seq[n] = key /\ \A m \in 1..(n - 1) : seq[m] # key) - 1
count(seq, key) == Cardinality({n \in 1..Len(seq) : seq[n] = key})

\* a variant of list indexing with a bug: no counting from the end
PyIndex_no_wrap(seq, i) ==
  IF i >= 0 /\ i < Len(seq) THEN [res |-> "value", val |-> <<seq[i + 1]>>]
  ELSE [res |-> "IndexError", val |-> <<>>]

\* self.values()[key] (l.42, l.48): Python's indexing of a list or tuple; an
\* index below 0 counts from the end
PyIndex(seq, i) ==
  IF i >= 0 /\ i < Len(seq) THEN [res |-> "value", val |-> <<seq[i + 1]>>]
  ELSE IF i < 0 /\ i + Len(seq) >= 0
       THEN [res |-> "value", val |-> <<seq[i + Len(seq) + 1]>>]
       ELSE [res |-> "IndexError", val |-> <<>>]

\* ---- Record.__getitem__ (l.40-50) ----------------------------------------
\* key: [kind, i, name].  l.50 returns the KeyError, it does not raise it.
record_getitem(keys, values, key) ==
  IF key.kind = "int" THEN PyIndex(values, key.i)
  ELSE IF count(keys, key.name) > 0
       THEN (IF count(keys, key.name) > 1 THEN [res |-> "KeyError", val |-> <<>>]
             ELSE PyIndex(values, index(keys, key.name)))
       ELSE [res |-> "returned KeyError()", val |-> <<>>]

RecordKeys ==
  {[kind |-> "int", i |-> i, name |-> ""] : i \in (0 - MaxFields - 1)..(MaxFields + 1)}
    \cup {[kind |-> "name", i |-> 0, name |-> n] : n \in ProbeNames}

\* Record(keys, values) (l.25-29): as many values as keys
InitRecord ==
  /\ rkeys \in SeqsUpTo(Names, MaxFields)
  /\ rvalues = [n \in 1..Len(rkeys) |-> ValueAt(n)]
  /\ rlast = [op |-> "init", kind |-> "none", i |-> 0, name |-> "", res |-> "None",
              val |-> <<>>]
  /\ DBNew
  /\ RCIdle

\* record[key]
RecordGetItem(key) ==
  /\ \E r \in {record_getitem(rkeys, rvalues, key)} :
       rlast' = [op |-> "getitem", kind |-> key.kind, i |-> key.i, name |-> key.name,
                 res |-> r.res, val |-> r.val]
  /\ UNCHANGED <<rkeys, rvalues, rc_vars, db_vars>>

NextRecord == \E key \in RecordKeys : RecordGetItem(key)

SpecRecord == InitRecord /\ [][NextRecord]_vars

\* ---- Record properties ---------------------------------------------------
ByName == rlast.op = "getitem" /\ rlast.kind = "name"
ByPos  == rlast.op = "getitem" /\ rlast.kind = "int"

\* C18: record[name] returns the field's value when the name is a field name
\* exactly once, and raises KeyError when the name is no field name or is a
\* field name more than once.
C18_NamedAccess ==
  ByName =>
    IF count(rkeys, rlast.name) = 1
    THEN rlast.res = "value" /\ rlast.val = <<rvalues[index(rkeys, rlast.name) + 1]>>
    ELSE rlast.res = "KeyError"

\* C19 as stated: record[i] returns the i-th value when 0 <= i < len and
\* raises IndexError for every other i.
C19_PositionalAccessNoNegative ==
  ByPos =>
    IF rlast.i >= 0 /\ rlast.i < Len(rvalues)
    THEN rlast.res = "value" /\ rlast.val = <<rvalues[rlast.i + 1]>>
    ELSE rlast.res = "IndexError"

\* C19 amended: record[i] returns the i-th value when 0 <= i < len, the value
\* at len + i when -len <= i < 0, and raises IndexError for every other i.
C19_PositionalAccess ==
  ByPos =>
    IF rlast.i >= 0 /\ rlast.i < Len(rvalues)
    THEN rlast.res = "value" /\ rlast.val = <<rvalues[rlast.i + 1]>>
    ELSE IF rlast.i < 0 /\ rlast.i >= 0 - Len(rvalues)
         THEN rlast.res = "value" /\ rlast.val = <<rvalues[Len(rvalues) + rlast.i + 1]>>
         ELSE rlast.res = "IndexError"

C19_Witness ==
  /\ ByPos
  /\ Len(rvalues) = 3
  /\ rlast.i = 0 - 1
  /\ rlast.res = "value"
  /\ rlast.val = <<ValueAt(3)>>

====
